---- MODULE Spec2Model ----
(***************************************************************************)
(* Model of the session orchestration core of the application:             *)
(* electron/services/ProcessManagerPTY.ts, class ProcessManager (the       *)
(* version that main.ts instantiates: ClaudeSession objects owned by       *)
(* Projects, one node-pty child per session).                              *)
(*                                                                         *)
(* Every handler of the class runs to completion on the single JavaScript  *)
(* thread, so each handler is one action.  startClaudeCode is the only     *)
(* handler with an await in the middle (the executable lookup); it is two  *)
(* actions, the part before the await and the part after it.  Timers and   *)
(* child-process callbacks are actions of their own.                       *)
(*                                                                         *)
(* A handler is written as an operator from a machine record M (all the    *)
(* fields of the ProcessManager plus the environment) to the machine       *)
(* record after the handler; handlers that call other handlers apply the   *)
(* callee's operator.  The field fx of the record is the ordered list of   *)
(* externally visible effects of the handler that ran last: events         *)
(* emitted, bytes written to a child, children spawned or killed, index    *)
(* mutations and the way the call ended.                                   *)
(***************************************************************************)
EXTENDS Integers, Sequences, FiniteSets, TLC

\* ---------------------------------------------------------------- bounds
MaxProjects == 1
MaxSessions == 2
MaxProcs == 2
MaxChunks == 1
MaxBurst == 3

ProjectIds == 1..MaxProjects
SessionIds == 1..MaxSessions

\* ------------------------------------------------------ program constants
MaxOutputEntries == 1000
MaxOutputSize == 10485760
TrimmedEntries == 100
SilenceThreshold == 30000
FreshSilence == 0
LongSilence == 30001

\* session.claudeProcess === undefined
NoProc == 0

\* the empty string
EmptyText == <<>>

\* session.progressState === undefined
NoProgress == [isActive |-> FALSE, status |-> "undefined", phase |-> "undefined"]

\* the display names the presentation layer passes: the ones the runs of the
\* model use, and the ones the contracts of the create operations are checked for
Names == {"a"}
AnyNames == {"", "a", "A b"}

\* the character codes the model's byte strings are made of
CR == 13
LF == 10
EOT == 4
LetterA == 97

\* the byte strings send-session-input is called with, as lists of character
\* codes: the Enter key alone, and a pasted line that ends in a carriage return
Commands == {<<CR>>, <<LetterA, CR>>}

VARIABLES
    projects,           \* this.projects: the ids that are keys of the project registry
    proj,               \* the Project objects ever created, by id: [path, sessions (list of session ids)]
    sessions,           \* this.sessions: the ids that are keys of the flat session index
    sess,               \* the ClaudeSession objects ever created, by id (closures keep them after removal)
    procs,              \* the child processes ever spawned, by process id
    recentOutputs,      \* this.recentOutputs: session id -> list of samples
    activeDataHandlers, \* this.activeDataHandlers: the session ids mapped to true
    pendingStarts,      \* per session id, the startClaudeCode calls suspended at the executable lookup
    killTimers,         \* the forced-termination timers scheduled by stopClaudeCode and not yet fired
    nchunks,            \* the number of output chunks the children have produced so far
    fx,                 \* the effects of the handler that ran last, in order
    analyzer,           \* the last call of the OutputAnalyzer: its arguments and what it returned
    stateFile,          \* the state file of the StateManager on disk
    appState,           \* the application state that is handed to saveState
    loaded,             \* what the last call of loadState returned
    store,              \* the projects of the renderer's project store
    saved,              \* what the last call of saveState returned
    calls,              \* the calls of the StateManager and of the restoring effect so far, in order
    clock,              \* new Date().getTime(): the time in milliseconds since the manager was made
    lastChunk,          \* per session id, the chunk its data callback accepted last: number, text, arrival time
    delivery            \* per session id, the chunks accepted and the chunks emitted so far, and whether it was stopped

managerVars == <<projects, proj, sessions, sess, procs, recentOutputs, activeDataHandlers,
                 pendingStarts, killTimers, nchunks, fx>>

persistVars == <<stateFile, appState, loaded, store, saved, calls>>

monitorVars == <<clock, lastChunk, delivery>>

vars == <<managerVars, analyzer, persistVars, monitorVars>>

\* one effect: kind, the id it concerns, a value, a payload
Fx(k, id, v) == [k |-> k, id |-> id, v |-> v, data |-> <<>>]
FxData(k, id, d) == [k |-> k, id |-> id, v |-> "", data |-> d]

\* the machine record of the current state
Cur ==
    [projects |-> projects, proj |-> proj, sessions |-> sessions, sess |-> sess, procs |-> procs,
     recentOutputs |-> recentOutputs, activeDataHandlers |-> activeDataHandlers,
     pendingStarts |-> pendingStarts, killTimers |-> killTimers,
     nchunks |-> nchunks, fx |-> <<>>, result |-> <<>>, halfUpdated |-> FALSE, now |-> clock]

\* the fields of the manager in the next state are those of the machine record M
Apply(M) ==
    /\ projects' = M.projects
    /\ proj' = M.proj
    /\ sessions' = M.sessions
    /\ sess' = M.sess
    /\ procs' = M.procs
    /\ recentOutputs' = M.recentOutputs
    /\ activeDataHandlers' = M.activeDataHandlers
    /\ pendingStarts' = M.pendingStarts
    /\ killTimers' = M.killTimers
    /\ nchunks' = M.nchunks
    /\ fx' = M.fx

\* the next state is the machine record M
Commit(M) ==
    /\ Apply(M)
    /\ UNCHANGED <<analyzer, persistVars, monitorVars>>

\* the events of the event bus, among the effects
Events ==
    {"project:created", "project:removed", "session:created", "session:removed",
     "status", "output", "output:cleared", "progress"}

\* the session lists of the projects and the flat session index agree: a
\* session is in the index exactly when it is once in the list of the
\* registered project its projectId names
Agree(M) ==
    \A sid \in DOMAIN M.sess :
        LET projectId == M.sess[sid].projectId
            list == M.proj[projectId].sessions
        IN sid \in M.sessions <=>
               /\ projectId \in M.projects
               /\ Cardinality({i \in DOMAIN list : list[i] = sid}) = 1

\* this.emit(...) and the other visible effects append to fx; halfUpdated
\* records that a listener of an event of this handler saw lists and index
\* disagree
Do(M, e) ==
    [M EXCEPT !.fx = Append(@, e),
              !.halfUpdated = @ \/ (e.k \in Events /\ ~Agree(M))]

\* the handler ends: it returns a value, throws an Error or is suspended at an
\* await; result is what its caller gets and is not part of the state
Return(M, value) == [M EXCEPT !.result = <<"return", value>>]
Throw(M, msg) == [M EXCEPT !.result = <<"throw", msg>>]
Await(M, what) == [M EXCEPT !.result = <<"await", what>>]
Returned(M) == M.result # <<>> /\ M.result[1] = "return"
Threw(M, msg) == M.result = <<"throw", msg>>

\* no call of the OutputAnalyzer yet
NoAnalysis ==
    [called |-> "none", text |-> <<>>, timeSinceLastOutput |-> 0,
     phase |-> "", status |-> "", stillActive |-> FALSE]

\* JavaScript values: undefined, null, an array of items, the object that
\* holds an application state
Undefined == [kind |-> "undefined"]
Null == [kind |-> "null"]
Array(items) == [kind |-> "array", items |-> items]
Object(projectList, commands) == [kind |-> "object", projects |-> projectList, commandHistory |-> commands]

\* no state file, nothing to save, no call of the StateManager, an empty store
NoPersistence ==
    /\ stateFile = [kind |-> "missing"]
    /\ appState = Object(Array(<<>>), Array(<<>>))
    /\ loaded = Undefined
    /\ store = [mounted |-> FALSE, projects |-> <<>>]
    /\ saved = Undefined
    /\ calls = <<>>

\* no chunk accepted yet
NoChunk == [no |-> 0, text |-> <<>>, at |-> 0]

\* nothing accepted, emitted, stopped or cleared yet; source is the child whose
\* chunk was accepted last, stoppedProcs the children that stopClaudeCode
\* signalled, clearedUpTo the number of the last chunk produced before the last clear
NothingDelivered ==
    [accepted |-> <<>>, delivered |-> <<>>, stopped |-> FALSE,
     source |-> NoProc, stoppedProcs |-> {}, clearedUpTo |-> 0]

\* the clock at the start, no chunk seen
NoTimePassed ==
    /\ clock = 0
    /\ lastChunk = [s \in SessionIds |-> NoChunk]
    /\ delivery = [s \in SessionIds |-> NothingDelivered]

\* the ProcessManager after its constructor
ManagerInit ==
    /\ projects = {}
    /\ proj = <<>>
    /\ sessions = {}
    /\ sess = <<>>
    /\ procs = <<>>
    /\ recentOutputs = <<>>
    /\ activeDataHandlers = {}
    /\ pendingStarts = [s \in SessionIds |-> 0]
    /\ killTimers = {}
    /\ nchunks = 0
    /\ fx = <<>>

Init ==
    /\ ManagerInit
    /\ analyzer = NoAnalysis
    /\ NoPersistence
    /\ NoTimePassed

\* ------------------------------------------------------- Session Registry

\* uuidv4(): an id never used before
FreshProject(M) == Len(M.proj) + 1
FreshSession(M) == Len(M.sess) + 1
FreshProc(M) == Len(M.procs) + 1
\* Map.set and Map.delete
MapSet(f, k, v) == [x \in (DOMAIN f) \cup {k} |-> IF x = k THEN v ELSE f[x]]
MapDel(f, k) == [x \in (DOMAIN f) \ {k} |-> f[x]]

\* Array.prototype.filter(s => s.id !== sid) on a list of session ids
RECURSIVE Without(_, _)
Without(list, sid) ==
    IF list = <<>> THEN <<>>
    ELSE IF Head(list) = sid THEN Without(Tail(list), sid)
    ELSE <<Head(list)>> \o Without(Tail(list), sid)

\* the members of a list
Range(list) == {list[i] : i \in 1..Len(list)}

\* isDirectory: fs.existsSync(projectPath) and fs.statSync(projectPath).isDirectory()
createProject(M, name, isDirectory) ==
    IF ~isDirectory
    THEN Throw(M, "Project path does not exist or is not a directory")
    ELSE LET id == FreshProject(M)
             M1 == [M EXCEPT !.proj = Append(@, [name |-> name, sessions |-> <<>>]),
                             !.projects = @ \cup {id}]
         IN Return(Do(M1, Fx("project:created", id, "")), "project")

\* createSession that hands out the session without entering it in the flat index
createSession_NotIndexed(M, projectId, name) ==
    IF projectId \notin M.projects
    THEN Throw(M, "Project not found")
    ELSE LET id == FreshSession(M)
             session == [projectId |-> projectId, name |-> name,
                         status |-> "idle", claudeProcess |-> NoProc,
                         output |-> <<>>, progressState |-> NoProgress,
                         emitTimer |-> FALSE, armed |-> 0, pendingOutput |-> <<>>, lastOutputTime |-> 0]
             M1 == [M EXCEPT !.sess = Append(@, session),
                             !.proj[projectId].sessions = Append(@, id)]
         IN Return(Do(M1, Fx("session:created", id, "")), "session")

createSession(M, projectId, name) ==
    IF projectId \notin M.projects
    THEN Throw(M, "Project not found")
    ELSE LET id == FreshSession(M)
             session == [projectId |-> projectId, name |-> name,
                         status |-> "idle", claudeProcess |-> NoProc,
                         output |-> <<>>, progressState |-> NoProgress,
                         emitTimer |-> FALSE, armed |-> 0, pendingOutput |-> <<>>, lastOutputTime |-> 0]
             M1 == [M EXCEPT !.sess = Append(@, session),
                             !.proj[projectId].sessions = Append(@, id),
                             !.sessions = @ \cup {id}]
         IN Return(Do(M1, Fx("session:created", id, "")), "session")

\* ------------------------------------------------------- Session Runtime

\* the callback of the setTimeout(..., 2000) in stopClaudeCode; it closes
\* over the session object, and proc records which child the stop signalled
KillTimerOf(sid, p) == [session |-> sid, proc |-> p]

\* a child is running, was sent the kill signal and has not terminated yet, or has exited
Alive(child) == child.state # "exited"

\* pty.write(bytes) on the handle of child p: the bytes are handed to the
\* pseudo-terminal as they are
ptyWrite(M, p, bytes) == Do(M, FxData("write", p, bytes))

\* pty.kill() on the handle of child p: the child is sent the hangup signal;
\* the call throws when the child is gone (the caller catches it)
ptyKill(M, p) ==
    IF Alive(M.procs[p])
    THEN Do([M EXCEPT !.procs[p].state = "killed"], Fx("kill", p, ""))
    ELSE M

\* clearTimeout(session.emitTimer) under if (session.emitTimer): the pending
\* callbacks of the session that are left
clearTimeout(session) == IF session.emitTimer /\ session.armed > 0 THEN session.armed - 1 ELSE session.armed

\* stopClaudeCode that leaves the clearing of the handle to the grace timer
stopClaudeCode_HandleLeftToTimer(M, sid) ==
    IF sid \notin M.sessions THEN Return(M, "void")
    ELSE IF M.sess[sid].claudeProcess = NoProc THEN Return(M, "void")
    ELSE LET p == M.sess[sid].claudeProcess
             M1 == [M EXCEPT !.activeDataHandlers = @ \ {sid},
                             !.sess[sid].armed = clearTimeout(M.sess[sid]),
                             !.sess[sid].emitTimer = FALSE,
                             !.sess[sid].pendingOutput = <<>>]
             M2 == ptyWrite(M1, p, <<EOT>>)
             M3 == Do([M2 EXCEPT !.killTimers = @ \cup {KillTimerOf(sid, p)}], Fx("setTimeout", p, "kill"))
         IN Return(M3, "void")

\* stopClaudeCode without the check of session.claudeProcess
stopClaudeCode_NoHandleCheck(M, sid) ==
    IF sid \notin M.sessions THEN Return(M, "void")
    ELSE LET p == M.sess[sid].claudeProcess
             M1 == [M EXCEPT !.activeDataHandlers = @ \ {sid},
                             !.sess[sid].armed = clearTimeout(M.sess[sid]),
                             !.sess[sid].emitTimer = FALSE,
                             !.sess[sid].pendingOutput = <<>>]
             M2 == ptyWrite(M1, p, <<EOT>>)
             M3 == Do([M2 EXCEPT !.killTimers = @ \cup {KillTimerOf(sid, p)}], Fx("setTimeout", p, "kill"))
         IN Return([M3 EXCEPT !.sess[sid].claudeProcess = NoProc], "void")

stopClaudeCode(M, sid) ==
    IF sid \notin M.sessions THEN Return(M, "void")
    ELSE IF M.sess[sid].claudeProcess = NoProc THEN Return(M, "void")
    ELSE LET p == M.sess[sid].claudeProcess
             M1 == [M EXCEPT !.activeDataHandlers = @ \ {sid},
                             !.sess[sid].armed = clearTimeout(M.sess[sid]),
                             !.sess[sid].emitTimer = FALSE,
                             !.sess[sid].pendingOutput = <<>>]
             M2 == ptyWrite(M1, p, <<EOT>>)
             M3 == Do([M2 EXCEPT !.killTimers = @ \cup {KillTimerOf(sid, p)}], Fx("setTimeout", p, "kill"))
         IN Return([M3 EXCEPT !.sess[sid].claudeProcess = NoProc], "void")

\* removeSession that emits session-removed before it deletes the session from the index
removeSession_EmitsEarly(M, sid) ==
    IF sid \notin M.sessions THEN Return(M, "false")
    ELSE LET projectId == M.sess[sid].projectId
             M1 == IF M.sess[sid].claudeProcess # NoProc THEN stopClaudeCode(M, sid) ELSE M
             M2 == [M1 EXCEPT !.recentOutputs = MapDel(@, sid),
                              !.activeDataHandlers = @ \ {sid}]
             M3 == IF projectId \in M2.projects
                   THEN Do([M2 EXCEPT !.proj[projectId].sessions = Without(@, sid)],
                           Fx("list:delete", sid, ""))
                   ELSE M2
             M4 == Do(M3, Fx("session:removed", sid, ""))
         IN Return(Do([M4 EXCEPT !.sessions = @ \ {sid}], Fx("index:delete", sid, "")), "true")

\* removeSession that deletes the session from the index before it stops the child
removeSession_DeletesFirst(M, sid) ==
    IF sid \notin M.sessions THEN Return(M, "false")
    ELSE LET projectId == M.sess[sid].projectId
             M1 == Do([M EXCEPT !.sessions = @ \ {sid}], Fx("index:delete", sid, ""))
             M2 == IF M1.sess[sid].claudeProcess # NoProc THEN stopClaudeCode(M1, sid) ELSE M1
             M3 == [M2 EXCEPT !.recentOutputs = MapDel(@, sid),
                              !.activeDataHandlers = @ \ {sid}]
             M4 == IF projectId \in M3.projects
                   THEN Do([M3 EXCEPT !.proj[projectId].sessions = Without(@, sid)],
                           Fx("list:delete", sid, ""))
                   ELSE M3
         IN Return(Do(M4, Fx("session:removed", sid, "")), "true")

removeSession(M, sid) ==
    IF sid \notin M.sessions THEN Return(M, "false")
    ELSE LET projectId == M.sess[sid].projectId
             M1 == IF M.sess[sid].claudeProcess # NoProc THEN stopClaudeCode(M, sid) ELSE M
             M2 == [M1 EXCEPT !.recentOutputs = MapDel(@, sid),
                              !.activeDataHandlers = @ \ {sid}]
             M3 == IF projectId \in M2.projects
                   THEN Do([M2 EXCEPT !.proj[projectId].sessions = Without(@, sid)],
                           Fx("list:delete", sid, ""))
                   ELSE M2
             M4 == Do([M3 EXCEPT !.sessions = @ \ {sid}], Fx("index:delete", sid, ""))
         IN Return(Do(M4, Fx("session:removed", sid, "")), "true")

\* a loop of removeProject that stops after the first session
removeSessions_FirstOnly(M, list) ==
    IF list = <<>> THEN M
    ELSE removeSession(M, Head(list))

\* the loop of removeProject over the list project.sessions had on entry
\* (removeSession replaces the list by a filtered copy, the loop keeps the old one)
RECURSIVE removeSessions(_, _)
removeSessions(M, list) ==
    IF list = <<>> THEN M
    ELSE removeSessions(removeSession(M, Head(list)), Tail(list))

removeProject(M, projectId) ==
    IF projectId \notin M.projects THEN Return(M, "false")
    ELSE LET M1 == removeSessions(M, M.proj[projectId].sessions)
             M2 == Do([M1 EXCEPT !.projects = @ \ {projectId}], Fx("registry:delete", projectId, ""))
         IN Return(Do(M2, Fx("project:removed", projectId, "")), "true")
\* pty.spawn returned a child for session sid: a new process with no handlers yet
ptySpawn(M, sid) ==
    LET p == FreshProc(M)
        child == [session |-> sid, state |-> "running", dataHandlers |-> 0, exitHandlers |-> 0]
    IN Do([M EXCEPT !.procs = Append(@, child)], Fx("spawn", p, ""))

\* startClaudeCode without the check of session.claudeProcess
startBegin_NoRunningCheck(M, sid, pathExists) ==
    IF sid \notin M.sessions THEN Throw(M, "Session not found")
    ELSE IF M.sess[sid].projectId \notin M.projects THEN Throw(M, "Project not found")
    ELSE IF ~pathExists
    THEN Throw([M EXCEPT !.sess[sid].status = "error"], "Project path does not exist")
    ELSE Await([M EXCEPT !.pendingStarts[sid] = @ + 1], "checkCommandExists")

\* startClaudeCode up to the await of checkCommandExists: the lookups and the
\* checks; a call that passes them is suspended.  pathExists is what
\* fs.existsSync(project.path) returns
startBegin(M, sid, pathExists) ==
    IF sid \notin M.sessions THEN Throw(M, "Session not found")
    ELSE IF M.sess[sid].projectId \notin M.projects THEN Throw(M, "Project not found")
    ELSE IF M.sess[sid].claudeProcess # NoProc THEN Throw(M, "Claude already running")
    ELSE IF ~pathExists
    THEN Throw([M EXCEPT !.sess[sid].status = "error"], "Project path does not exist")
    ELSE Await([M EXCEPT !.pendingStarts[sid] = @ + 1], "checkCommandExists")

\* the initial progress state of a run
StartingProgress == [isActive |-> TRUE, status |-> "Starting Claude...", phase |-> "thinking"]

\* startClaudeCode from the duplicate-handler guard on: the handlers are
\* registered on the attached child and the status event is emitted
registerHandlers(M, sid) ==
    IF sid \in M.activeDataHandlers
    THEN Return(M, "duplicate-handler-prevented")
    ELSE LET p == M.sess[sid].claudeProcess
             M1 == [M EXCEPT !.activeDataHandlers = @ \cup {sid}]
             M2 == Do([M1 EXCEPT !.procs[p].dataHandlers = @ + 1], Fx("onData", p, ""))
             M3 == Do([M2 EXCEPT !.procs[p].exitHandlers = @ + 1], Fx("onExit", p, ""))
             M4 == Do(M3, Fx("status", sid, "active"))
         IN Return(M4, "started")

\* startClaudeCode after a child was attached
started(M, sid) ==
    LET M1 == [M EXCEPT !.sess[sid].status = "active",
                        !.sess[sid].progressState = StartingProgress,
                        !.sess[sid].lastOutputTime = M.now,
                        !.recentOutputs = MapSet(@, sid, <<>>)]
    IN registerHandlers(M1, sid)

\* startClaudeCode after the await.  outcome is what pty.spawn does:
\*   "spawned"  the first spawn returns a child
\*   "fallback" the first spawn throws and the spawn of the fallback shell returns a child
\*   "failed"   both spawns throw
startResume(M, sid, outcome) ==
    LET M0 == [M EXCEPT !.pendingStarts[sid] = @ - 1]
    IN IF outcome = "failed"
       THEN Throw([M0 EXCEPT !.sess[sid].status = "error"], "Failed to start any process")
       ELSE LET p == FreshProc(M0)
                M1 == ptySpawn(M0, sid)
                M2 == [M1 EXCEPT !.sess[sid].claudeProcess = p]
            IN started(M2, sid)
\* a chunk is the number of the chunk among all chunks produced, negated when
\* the chunk is a long one; the value a child hands to the data callback is a
\* chunk or something that is not a string
NotAString == 0
ShortChunk == 1
LongChunk == 65536
ChunkNo(c) == IF c < 0 THEN -c ELSE c
\* str.length
ChunkLen(c) == IF c < 0 THEN LongChunk ELSE ShortChunk

\* Array.prototype.slice(-n)
LastN(list, n) == IF Len(list) <= n THEN list ELSE SubSeq(list, Len(list) - n + 1, Len(list))

\* the sum of the lengths of the entries i..j of a list, by halves (a sum
\* from the front of a long log nests too deeply to evaluate)
RECURSIVE SumLen(_, _, _)
SumLen(list, i, j) ==
    IF i > j THEN 0
    ELSE IF i = j THEN ChunkLen(list[i])
    ELSE LET m == (i + j) \div 2
         IN SumLen(list, i, m) + SumLen(list, m + 1, j)

\* output.reduce((sum, str) => sum + str.length, 0)
TotalSize(list) == SumLen(list, 1, Len(list))

\* an eviction that keeps the oldest entries
Evict_KeepsOldest(output) ==
    LET byCount == IF Len(output) > MaxOutputEntries THEN SubSeq(output, 1, MaxOutputEntries) ELSE output
    IN IF TotalSize(byCount) > MaxOutputSize THEN LastN(byCount, TrimmedEntries) ELSE byCount

\* an eviction that trims a log over the size ceiling to the count ceiling
Evict_SizeTrimsToCount(output) ==
    LET byCount == IF Len(output) > MaxOutputEntries THEN LastN(output, MaxOutputEntries) ELSE output
    IN IF TotalSize(byCount) > MaxOutputSize THEN LastN(byCount, MaxOutputEntries) ELSE byCount

\* the eviction of the data callback: the count ceiling, then the size ceiling
Evict(output) ==
    LET byCount == IF Len(output) > MaxOutputEntries THEN LastN(output, MaxOutputEntries) ELSE output
    IN IF TotalSize(byCount) > MaxOutputSize THEN LastN(byCount, TrimmedEntries) ELSE byCount

\* a data callback that also records the chunk as a sample of the
\* recent-output window
onData_RecordsSample(M, sid, data) ==
    IF sid \notin M.sessions THEN M
    ELSE IF M.sess[sid].claudeProcess = NoProc THEN M
    ELSE IF data = NotAString THEN M
    ELSE [M EXCEPT !.sess[sid].output = Evict(Append(@, data)),
                   !.sess[sid].armed = IF M.sess[sid].emitTimer THEN @ ELSE @ + 1,
                   !.sess[sid].emitTimer = TRUE,
                   !.sess[sid].pendingOutput = Append(@, data),
                   !.recentOutputs = MapSet(@, sid, Append(IF sid \in DOMAIN @ THEN @[sid] ELSE <<>>,
                                                           [text |-> EmptyText]))]

\* a data callback without the check of the type of the chunk
onData_NoTypeCheck(M, sid, data) ==
    IF sid \notin M.sessions THEN M
    ELSE IF M.sess[sid].claudeProcess = NoProc THEN M
    ELSE [M EXCEPT !.sess[sid].output = Evict(Append(@, data)),
                   !.sess[sid].armed = IF M.sess[sid].emitTimer THEN @ ELSE @ + 1,
                   !.sess[sid].emitTimer = TRUE,
                   !.sess[sid].pendingOutput = Append(@, data)]

\* a data callback that arms a timer for every chunk
onData_ArmsEveryChunk(M, sid, data) ==
    IF sid \notin M.sessions THEN M
    ELSE IF M.sess[sid].claudeProcess = NoProc THEN M
    ELSE IF data = NotAString THEN M
    ELSE [M EXCEPT !.sess[sid].output = Evict(Append(@, data)),
                   !.sess[sid].armed = @ + 1,
                   !.sess[sid].emitTimer = TRUE,
                   !.sess[sid].pendingOutput = Append(@, data)]

\* the callback registered with claudeProcess.onData by the start of session sid
onData(M, sid, data) ==
    IF sid \notin M.sessions THEN M
    ELSE IF M.sess[sid].claudeProcess = NoProc THEN M
    ELSE IF data = NotAString THEN M
    ELSE [M EXCEPT !.sess[sid].output = Evict(Append(@, data)),
                   !.sess[sid].armed = IF M.sess[sid].emitTimer THEN @ ELSE @ + 1,
                   !.sess[sid].emitTimer = TRUE,
                   !.sess[sid].pendingOutput = Append(@, data)]

\* a timer callback that emits the pending output and keeps it
emitTimerFired_KeepsPending(M, sid) ==
    LET batchedOutput == M.sess[sid].pendingOutput
        M1 == IF batchedOutput # <<>>
              THEN Do(M, FxData("output", sid, batchedOutput))
              ELSE M
    IN [M1 EXCEPT !.sess[sid].emitTimer = FALSE, !.sess[sid].armed = @ - 1]

\* the callback of the setTimeout(..., 16) armed by the data callback
emitTimerFired(M, sid) ==
    LET batchedOutput == M.sess[sid].pendingOutput
        M1 == IF batchedOutput # <<>>
              THEN [Do(M, FxData("output", sid, batchedOutput)) EXCEPT !.sess[sid].pendingOutput = <<>>]
              ELSE M
    IN [M1 EXCEPT !.sess[sid].emitTimer = FALSE, !.sess[sid].armed = @ - 1]

\* an exit callback that reports every exit as idle
onExit_AlwaysIdle(M, sid, exitCode) ==
    LET M1 == [M EXCEPT !.sess[sid].status = "idle",
                        !.sess[sid].claudeProcess = NoProc]
        M2 == IF M1.sess[sid].progressState # NoProgress
              THEN Do([M1 EXCEPT !.sess[sid].progressState.isActive = FALSE,
                                 !.sess[sid].progressState.phase = "idle",
                                 !.sess[sid].progressState.status = ""],
                      Fx("progress", sid, "idle"))
              ELSE M1
    IN Do(M2, Fx("status", sid, "idle"))

\* the callback registered with claudeProcess.onExit by the start of session sid
onExit(M, sid, exitCode) ==
    LET status == IF exitCode = 0 THEN "idle" ELSE "error"
        M1 == [M EXCEPT !.sess[sid].status = status,
                        !.sess[sid].claudeProcess = NoProc]
        M2 == IF M1.sess[sid].progressState # NoProgress
              THEN Do([M1 EXCEPT !.sess[sid].progressState.isActive = FALSE,
                                 !.sess[sid].progressState.phase = "idle",
                                 !.sess[sid].progressState.status = ""],
                      Fx("progress", sid, "idle"))
              ELSE M1
    IN Do(M2, Fx("status", sid, status))

\* the callback of the setTimeout(..., 2000) of stopClaudeCode for session sid
killTimerFired(M, sid) ==
    LET p == M.sess[sid].claudeProcess
    IN IF p # NoProc
       THEN [ptyKill(M, p) EXCEPT !.sess[sid].claudeProcess = NoProc]
       ELSE M

\* the progress state a submitted command resets to
ProcessingProgress == [isActive |-> TRUE, status |-> "Processing command...", phase |-> "thinking"]

\* sendCommand without the check of session.claudeProcess
sendCommand_NoHandleCheck(M, sid, command) ==
    IF sid \notin M.sessions THEN Throw(M, "Session not found")
    ELSE LET M1 == [M EXCEPT !.sess[sid].status = "active"]
             M2 == ptyWrite(M1, M.sess[sid].claudeProcess, command)
             M3 == IF (command = <<CR>> \/ command = <<LF>>) /\ M2.sess[sid].progressState # NoProgress
                   THEN Do([M2 EXCEPT !.sess[sid].progressState = ProcessingProgress,
                                      !.sess[sid].lastOutputTime = M.now],
                           Fx("progress", sid, "thinking"))
                   ELSE M2
         IN Return(Do(M3, Fx("status", sid, "active")), "void")

\* sendCommand that terminates what it writes with a line feed
sendCommand_AppendsLineFeed(M, sid, command) ==
    IF sid \notin M.sessions THEN Throw(M, "Session not found")
    ELSE IF M.sess[sid].claudeProcess = NoProc THEN Throw(M, "Claude not running")
    ELSE LET M1 == [M EXCEPT !.sess[sid].status = "active"]
             M2 == ptyWrite(M1, M.sess[sid].claudeProcess, command \o <<LF>>)
             M3 == IF (command = <<CR>> \/ command = <<LF>>) /\ M2.sess[sid].progressState # NoProgress
                   THEN Do([M2 EXCEPT !.sess[sid].progressState = ProcessingProgress,
                                      !.sess[sid].lastOutputTime = M.now],
                           Fx("progress", sid, "thinking"))
                   ELSE M2
         IN Return(Do(M3, Fx("status", sid, "active")), "void")

sendCommand(M, sid, command) ==
    IF sid \notin M.sessions THEN Throw(M, "Session not found")
    ELSE IF M.sess[sid].claudeProcess = NoProc THEN Throw(M, "Claude not running")
    ELSE LET M1 == [M EXCEPT !.sess[sid].status = "active"]
             M2 == ptyWrite(M1, M.sess[sid].claudeProcess, command)
             M3 == IF (command = <<CR>> \/ command = <<LF>>) /\ M2.sess[sid].progressState # NoProgress
                   THEN Do([M2 EXCEPT !.sess[sid].progressState = ProcessingProgress,
                                      !.sess[sid].lastOutputTime = M.now],
                           Fx("progress", sid, "thinking"))
                   ELSE M2
         IN Return(Do(M3, Fx("status", sid, "active")), "void")

\* clearSessionOutput that keeps the newest chunk of the log
clearSessionOutput_KeepsNewest(M, sid) ==
    IF sid \notin M.sessions THEN Return(M, "void")
    ELSE Return(Do([M EXCEPT !.sess[sid].output = LastN(@, 1)], Fx("output:cleared", sid, "")), "void")

clearSessionOutput(M, sid) ==
    IF sid \notin M.sessions THEN Return(M, "void")
    ELSE Return(Do([M EXCEPT !.sess[sid].output = <<>>], Fx("output:cleared", sid, "")), "void")

\* ------------------------------------------------------- Output Classifier
\* A text is a list of tokens: words and phrases that the patterns of the
\* OutputAnalyzer look for, white space, a question mark and a word no
\* pattern looks for.
Tokens ==
    {"sp", "Let me", "creating", "running", "analyzing", "thinking", "done",
     "error", "Would you like", "?", "word"}

Has(text, token) == \E i \in DOMAIN text : text[i] = token

\* some pattern of the class matches the text (pattern.test): the starting
\* patterns are anchored at the start of the text, the question mark of the
\* waiting patterns at its end, the other patterns match anywhere
Matches(class, text) ==
    CASE class = "starting" -> text # <<>> /\ text[1] = "Let me"
      [] class = "creating" -> Has(text, "creating")
      [] class = "executing" -> Has(text, "running")
      [] class = "analyzing" -> Has(text, "analyzing")
      [] class = "thinking" -> Has(text, "thinking")
      [] class = "complete" -> Has(text, "done")
      [] class = "waiting" -> (text # <<>> /\ text[Len(text)] = "?") \/ Has(text, "Would you like")
      [] class = "error" -> Has(text, "error")

\* String.prototype.trim
RECURSIVE TrimStart(_)
TrimStart(text) ==
    IF text # <<>> /\ Head(text) = "sp" THEN TrimStart(Tail(text)) ELSE text

RECURSIVE TrimEnd(_)
TrimEnd(text) ==
    IF text # <<>> /\ text[Len(text)] = "sp" THEN TrimEnd(SubSeq(text, 1, Len(text) - 1)) ELSE text

Trim(text) == TrimEnd(TrimStart(text))

Analysis(phase, status) == [phase |-> phase, status |-> status]

\* an analyzeOutput that looks for completion before it looks for questions
analyzeOutput_CompletionFirst(text) ==
    LET cleanText == Trim(text)
    IN IF cleanText = <<>> THEN Analysis("idle", "")
       ELSE IF Matches("complete", cleanText) THEN Analysis("complete", "Task completed")
       ELSE IF Matches("waiting", cleanText) THEN Analysis("waiting", "Waiting for your response...")
       ELSE IF Matches("error", cleanText) THEN Analysis("working", "Handling error...")
       ELSE IF Matches("starting", cleanText) THEN Analysis("thinking", "Starting task...")
       ELSE IF Matches("creating", cleanText) THEN Analysis("working", "Creating ...")
       ELSE IF Matches("executing", cleanText) THEN Analysis("working", "Running ...")
       ELSE IF Matches("analyzing", cleanText) THEN Analysis("thinking", "Analyzing code...")
       ELSE IF Matches("thinking", cleanText) THEN Analysis("thinking", "Thinking...")
       ELSE Analysis("working", "Working...")

\* OutputAnalyzer.analyzeOutput; the status of the creating and executing
\* classes names what is created or run, which the model leaves out
analyzeOutput(text) ==
    LET cleanText == Trim(text)
    IN IF cleanText = <<>> THEN Analysis("idle", "")
       ELSE IF Matches("waiting", cleanText) THEN Analysis("waiting", "Waiting for your response...")
       ELSE IF Matches("complete", cleanText) THEN Analysis("complete", "Task completed")
       ELSE IF Matches("error", cleanText) THEN Analysis("working", "Handling error...")
       ELSE IF Matches("starting", cleanText) THEN Analysis("thinking", "Starting task...")
       ELSE IF Matches("creating", cleanText) THEN Analysis("working", "Creating ...")
       ELSE IF Matches("executing", cleanText) THEN Analysis("working", "Running ...")
       ELSE IF Matches("analyzing", cleanText) THEN Analysis("thinking", "Analyzing code...")
       ELSE IF Matches("thinking", cleanText) THEN Analysis("thinking", "Thinking...")
       ELSE Analysis("working", "Working...")

\* an isStillActive that takes a silence of exactly the threshold for too long
isStillActive_ThresholdIncluded(lastOutput, timeSinceLastOutput) ==
    IF Matches("waiting", lastOutput) THEN FALSE
    ELSE IF Matches("complete", lastOutput) THEN FALSE
    ELSE IF timeSinceLastOutput >= SilenceThreshold
         THEN (Matches("starting", lastOutput) \/ Matches("thinking", lastOutput))
         ELSE TRUE

\* OutputAnalyzer.isStillActive on the text of the last output and the
\* silence in milliseconds
isStillActive(lastOutput, timeSinceLastOutput) ==
    IF Matches("waiting", lastOutput) THEN FALSE
    ELSE IF Matches("complete", lastOutput) THEN FALSE
    ELSE IF timeSinceLastOutput > SilenceThreshold
         THEN (Matches("starting", lastOutput) \/ Matches("thinking", lastOutput))
         ELSE TRUE

\* the body of the progress monitor's loop for one session of the index;
\* timeSinceLastOutput is now - progressState.lastOutputTime
checkProgress(M, sid, timeSinceLastOutput) ==
    LET ps == M.sess[sid].progressState
        recent == IF sid \in DOMAIN M.recentOutputs THEN M.recentOutputs[sid] ELSE <<>>
        lastOutput == IF Len(recent) > 0 THEN recent[Len(recent)].text ELSE EmptyText
    IN IF ps # NoProgress /\ ps.isActive /\ ~isStillActive(lastOutput, timeSinceLastOutput)
       THEN Do([M EXCEPT !.sess[sid].progressState.isActive = FALSE,
                         !.sess[sid].progressState.phase = "complete",
                         !.sess[sid].progressState.status = "Ready"],
               Fx("progress", sid, "complete"))
       ELSE M

\* the setInterval(..., 1000) callback of startProgressMonitoring: the loop
\* over the session index, in insertion order (ids are handed out in order)
\* silent: the sessions whose last output time is more than the threshold ago
RECURSIVE checkAll(_, _, _)
checkAll(M, ids, silent) ==
    IF ids = {} THEN M
    ELSE LET sid == CHOOSE x \in ids : \A y \in ids : x <= y
             elapsed == IF sid \in silent THEN LongSilence ELSE FreshSilence
         IN checkAll(checkProgress(M, sid, elapsed), ids \ {sid}, silent)

progressTick(M, silent) == checkAll(M, M.sessions, silent)
\* ---------------------------------------------------------------- actions

CreateProject ==
    \E name \in Names, isDirectory \in BOOLEAN :
        /\ Len(proj) < MaxProjects \/ ~isDirectory
        /\ Commit(createProject(Cur, name, isDirectory))

RemoveProject ==
    \E projectId \in ProjectIds :
        LET M == removeProject(Cur, projectId)
        IN /\ Commit(M)

CreateSession ==
    \E projectId \in ProjectIds, name \in Names :
        /\ Len(sess) < MaxSessions \/ projectId \notin projects
        /\ Commit(createSession(Cur, projectId, name))

RemoveSession ==
    \E sid \in SessionIds :
        LET M == removeSession(Cur, sid)
        IN /\ Commit(M)

\* the number of startClaudeCode calls suspended at the await; each of them
\* may spawn one child, and the model lets MaxProcs children be spawned in all
RECURSIVE SumPending(_)
SumPending(n) == IF n = 0 THEN 0 ELSE pendingStarts[n] + SumPending(n - 1)

Inflight == SumPending(MaxSessions)

StartBegin ==
    \E sid \in SessionIds, pathExists \in BOOLEAN :
        /\ Len(procs) + Inflight < MaxProcs
        /\ Commit(startBegin(Cur, sid, pathExists))

StartResume ==
    \E sid \in SessionIds, outcome \in {"spawned", "fallback", "failed"} :
        /\ pendingStarts[sid] > 0
        /\ Commit(startResume(Cur, sid, outcome))

StopSession ==
    \E sid \in SessionIds :
        LET M == stopClaudeCode(Cur, sid)
        IN /\ Commit(M)

SendInput ==
    \E sid \in SessionIds, command \in Commands :
        LET M == sendCommand(Cur, sid, command)
        IN /\ Commit(M)

ClearOutput ==
    \E sid \in SessionIds :
        LET M == clearSessionOutput(Cur, sid)
        IN /\ Commit(M)

\* a live child produces a chunk; node-pty calls the data callbacks registered on it
ProcessOutput ==
    \E p \in DOMAIN procs, string \in BOOLEAN :
        /\ Alive(procs[p])
        /\ procs[p].dataHandlers > 0
        /\ nchunks < MaxChunks
        /\ LET data == IF string THEN nchunks + 1 ELSE NotAString
               M == [Cur EXCEPT !.nchunks = IF string THEN @ + 1 ELSE @]
           IN Commit(onData(M, procs[p].session, data))

EmitTimer ==
    \E sid \in DOMAIN sess :
        /\ sess[sid].armed > 0
        /\ Commit(emitTimerFired(Cur, sid))

\* a live child terminates (by itself, on the end-of-transmission byte or
\* killed; a child that ignores the byte is one that does not take this step
\* before it is killed); node-pty calls the exit callbacks registered on it
ProcessExit ==
    \E p \in DOMAIN procs, exitCode \in {0, 1} :
        /\ Alive(procs[p])
        /\ LET M == [Cur EXCEPT !.procs[p].state = "exited"]
           IN Commit(IF procs[p].exitHandlers > 0 THEN onExit(M, procs[p].session, exitCode) ELSE M)

KillTimer ==
    \E t \in killTimers :
        LET M == [Cur EXCEPT !.killTimers = @ \ {t}]
        IN Commit(killTimerFired(M, t.session))

\* the one-second interval fires; any time may have passed since a session's
\* last output time was set
ProgressTick ==
    \E silent \in SUBSET sessions :
        Commit(progressTick(Cur, silent))

Next ==
    \/ CreateProject
    \/ RemoveProject
    \/ CreateSession
    \/ RemoveSession
    \/ StartBegin
    \/ StartResume
    \/ StopSession
    \/ SendInput
    \/ ClearOutput
    \/ ProcessOutput
    \/ EmitTimer
    \/ ProcessExit
    \/ KillTimer
    \/ ProgressTick

Spec == Init /\ [][Next]_vars

\* the callers serialize the start-session calls of a session: a session has
\* at most one start in flight
SerialNext == Next /\ \A sid \in SessionIds : pendingStarts'[sid] <= 1

SerialSpec == Init /\ [][SerialNext]_vars

\* ------------------------------------------------- long-running sessions
\* A session that has been running for a while: its child has produced many
\* chunks, all of them logged and emitted.  The log is one of: empty, one
\* short of the count ceiling with short chunks, filled to the size ceiling
\* with long chunks, at the count ceiling and less than a long chunk below the
\* size ceiling with its oldest chunks long.  From there the child produces a
\* burst of further chunks.

PrefilledShort == MaxOutputEntries - 1
PrefilledLong == MaxOutputSize \div LongChunk
PrefilledLogs ==
    {<<>>, [i \in 1..PrefilledShort |-> i], [i \in 1..PrefilledLong |-> -i],
     [i \in 1..MaxOutputEntries |-> IF i < PrefilledLong THEN -i ELSE i]}

LongRunInit ==
    \E log \in PrefilledLogs :
        /\ projects = {1}
        /\ proj = <<[name |-> "a", sessions |-> <<1>>]>>
        /\ sessions = {1}
        /\ sess = <<[projectId |-> 1, name |-> "a", status |-> "active", claudeProcess |-> 1,
                     output |-> log, progressState |-> StartingProgress,
                     emitTimer |-> FALSE, armed |-> 0, pendingOutput |-> <<>>, lastOutputTime |-> 0]>>
        /\ procs = <<[session |-> 1, state |-> "running", dataHandlers |-> 1, exitHandlers |-> 1]>>
        /\ recentOutputs = MapSet(<<>>, 1, <<>>)
        /\ activeDataHandlers = {1}
        /\ pendingStarts = [s \in SessionIds |-> 0]
        /\ killTimers = {}
        /\ nchunks = Len(log)
        /\ fx = <<>>
        /\ analyzer = NoAnalysis
        /\ NoPersistence
        /\ NoTimePassed

\* the child produces one more chunk of a burst, short or long, or a value
\* that is not a string
BurstOutput ==
    \E p \in DOMAIN procs, kind \in {"short", "long", "invalid"} :
        /\ Alive(procs[p])
        /\ procs[p].dataHandlers > 0
        /\ \E log \in PrefilledLogs : Len(log) <= nchunks /\ nchunks < Len(log) + MaxBurst
        /\ LET data == CASE kind = "short" -> nchunks + 1
                         [] kind = "long" -> 0 - (nchunks + 1)
                         [] OTHER -> NotAString
               M == [Cur EXCEPT !.nchunks = IF kind = "invalid" THEN @ ELSE @ + 1]
           IN Commit(onData(M, procs[p].session, data))

LongRunNext ==
    \/ BurstOutput
    \/ EmitTimer
    \/ ClearOutput
    \/ StopSession

LongRunSpec == LongRunInit /\ [][LongRunNext]_vars

\* ------------------------------------------------- the progress monitor in time
\* One session whose child was attached when the clock started.  Time passes
\* in steps of ten monitor periods; the child produces chunks with a text, the
\* user sends input, and the monitor's interval fires with the time that has
\* really passed since the session's last output time.
MaxSteps == 4
MaxMonitorChunks == 2
MonitorInterval == 1000

ChunkTexts == {<<"word">>, <<"done">>, <<"Let me", "word">>}

MonitorInit ==
    /\ projects = {1}
    /\ proj = <<[name |-> "a", sessions |-> <<1>>]>>
    /\ sessions = {1}
    /\ sess = <<[projectId |-> 1, name |-> "a", status |-> "active", claudeProcess |-> 1,
                 output |-> <<>>, progressState |-> StartingProgress,
                 emitTimer |-> FALSE, armed |-> 0, pendingOutput |-> <<>>, lastOutputTime |-> 0]>>
    /\ procs = <<[session |-> 1, state |-> "running", dataHandlers |-> 1, exitHandlers |-> 1]>>
    /\ recentOutputs = MapSet(<<>>, 1, <<>>)
    /\ activeDataHandlers = {1}
    /\ pendingStarts = [s \in SessionIds |-> 0]
    /\ killTimers = {}
    /\ nchunks = 0
    /\ fx = <<>>
    /\ analyzer = NoAnalysis
    /\ NoPersistence
    /\ NoTimePassed

\* ten periods of the monitor's interval pass
TimePasses ==
    /\ clock < MaxSteps * 10 * MonitorInterval
    /\ clock' = clock + 10 * MonitorInterval
    /\ UNCHANGED <<managerVars, analyzer, persistVars, lastChunk, delivery>>

\* a live child produces a chunk with a text; the chunk its data callback
\* accepts is noted with its arrival time
TimedOutput ==
    \E p \in DOMAIN procs, text \in ChunkTexts :
        /\ Alive(procs[p])
        /\ procs[p].dataHandlers > 0
        /\ nchunks < MaxMonitorChunks
        /\ LET sid == procs[p].session
               data == nchunks + 1
               M == onData([Cur EXCEPT !.nchunks = @ + 1], sid, data)
               accepted == M.sess[sid].pendingOutput # sess[sid].pendingOutput
           IN /\ Apply(M)
              /\ lastChunk' = IF accepted
                              THEN [lastChunk EXCEPT ![sid] = [no |-> data, text |-> text, at |-> clock]]
                              ELSE lastChunk
        /\ UNCHANGED <<analyzer, persistVars, clock, delivery>>

\* the sessions whose last output time is more than the threshold ago
SilentSessions == {sid \in sessions : clock - sess[sid].lastOutputTime > SilenceThreshold}

\* the one-second interval fires
TimedProgressTick ==
    LET M == progressTick(Cur, SilentSessions)
    IN /\ Commit(M)

MonitorNext ==
    \/ TimePasses
    \/ TimedOutput
    \/ TimedProgressTick
    \/ SendInput
    \/ EmitTimer

MonitorSpec == MonitorInit /\ [][MonitorNext]_vars

\* ------------------------------------------------- what a listener receives
\* The started session again, now with a record of what its data callbacks
\* accepted and of what the listeners of the output event were handed.
MaxDeliveryChunks == 3

\* the payloads of the output events for session sid among a list of effects
RECURSIVE Payloads(_, _)
Payloads(effects, sid) ==
    IF effects = <<>> THEN <<>>
    ELSE (IF Head(effects).k = "output" /\ Head(effects).id = sid THEN Head(effects).data ELSE <<>>)
         \o Payloads(Tail(effects), sid)

\* the children of session sid that a list of effects signals to stop
Signalled(M, sid) ==
    {M.fx[i].id : i \in {j \in DOMAIN M.fx : M.fx[j].k = "setTimeout" /\ M.procs[M.fx[j].id].session = sid}}

\* the record after the handler that led to machine record M; p is the child
\* whose chunk the handler was called with, if it is a data callback
Observe(M, p) ==
    [sid \in SessionIds |->
        IF sid \notin DOMAIN sess THEN delivery[sid]
        ELSE LET before == sess[sid].pendingOutput
                 after == M.sess[sid].pendingOutput
                 accepts == Len(after) > Len(before)
             IN [accepted |-> IF accepts
                              THEN delivery[sid].accepted \o SubSeq(after, Len(before) + 1, Len(after))
                              ELSE delivery[sid].accepted,
                 delivered |-> delivery[sid].delivered \o Payloads(M.fx, sid),
                 stopped |-> delivery[sid].stopped \/ Signalled(M, sid) # {},
                 source |-> IF accepts THEN p ELSE delivery[sid].source,
                 stoppedProcs |-> delivery[sid].stoppedProcs \cup Signalled(M, sid),
                 clearedUpTo |-> IF \E i \in DOMAIN M.fx : M.fx[i].k = "output:cleared" /\ M.fx[i].id = sid
                                 THEN M.nchunks
                                 ELSE delivery[sid].clearedUpTo]]

\* the next state is the machine record M, and the record is brought up to date
StepOf(M, p) ==
    /\ Apply(M)
    /\ delivery' = Observe(M, p)
    /\ UNCHANGED <<analyzer, persistVars, clock, lastChunk>>

Step(M) == StepOf(M, NoProc)

OutputObserved ==
    \E p \in DOMAIN procs :
        /\ Alive(procs[p])
        /\ procs[p].dataHandlers > 0
        /\ nchunks < MaxDeliveryChunks
        /\ StepOf(onData([Cur EXCEPT !.nchunks = @ + 1], procs[p].session, nchunks + 1), p)

EmitObserved ==
    \E sid \in DOMAIN sess :
        /\ sess[sid].armed > 0
        /\ Step(emitTimerFired(Cur, sid))

ExitObserved ==
    \E p \in DOMAIN procs, exitCode \in {0, 1} :
        /\ Alive(procs[p])
        /\ LET M == [Cur EXCEPT !.procs[p].state = "exited"]
           IN Step(IF procs[p].exitHandlers > 0 THEN onExit(M, procs[p].session, exitCode) ELSE M)

ClearObserved ==
    \E sid \in sessions :
        LET M == clearSessionOutput(Cur, sid)
        IN /\ Step(M)

StopObserved ==
    \E sid \in sessions :
        LET M == stopClaudeCode(Cur, sid)
        IN /\ Step(M)

RemoveObserved ==
    \E sid \in sessions :
        LET M == removeSession(Cur, sid)
        IN /\ Step(M)

StartBeginObserved ==
    \E sid \in sessions :
        /\ Len(procs) + Inflight < MaxProcs
        /\ Step(startBegin(Cur, sid, TRUE))

StartResumeObserved ==
    \E sid \in SessionIds, outcome \in {"spawned", "failed"} :
        /\ pendingStarts[sid] > 0
        /\ Step(startResume(Cur, sid, outcome))

KillTimerObserved ==
    \E t \in killTimers :
        LET M == [Cur EXCEPT !.killTimers = @ \ {t}]
        IN Step(killTimerFired(M, t.session))

DeliveryNext ==
    \/ OutputObserved
    \/ EmitObserved
    \/ ExitObserved
    \/ ClearObserved
    \/ StopObserved
    \/ RemoveObserved
    \/ StartBeginObserved
    \/ StartResumeObserved
    \/ KillTimerObserved

DeliverySpec == MonitorInit /\ [][DeliveryNext]_vars

\* ------------------------------------------------------- the classifier alone
\* The OutputAnalyzer is a pure object: its two methods are applied to every
\* text of up to MaxTokens tokens and to silences around the threshold.
MaxTokens == 3

Texts == UNION {[1..n -> Tokens] : n \in 0..MaxTokens}

Silences == {0, 16, 29999, 30000, 30001, 60000}

AnalyzerInit ==
    /\ ManagerInit
    /\ \E text \in Texts : analyzer = [NoAnalysis EXCEPT !.text = text]
    /\ NoPersistence
    /\ NoTimePassed

\* a call of analyzer.analyzeOutput(text)
AnalyzeOutput ==
    /\ analyzer' = [analyzer EXCEPT !.called = "analyzeOutput",
                                    !.timeSinceLastOutput = 0,
                                    !.phase = analyzeOutput(analyzer.text).phase,
                                    !.status = analyzeOutput(analyzer.text).status,
                                    !.stillActive = FALSE]
    /\ UNCHANGED <<managerVars, persistVars, monitorVars>>

\* a call of analyzer.isStillActive(text, timeSinceLastOutput)
IsStillActive ==
    \E timeSinceLastOutput \in Silences :
        /\ analyzer' = [analyzer EXCEPT !.called = "isStillActive",
                                        !.timeSinceLastOutput = timeSinceLastOutput,
                                        !.phase = "",
                                        !.status = "",
                                        !.stillActive = isStillActive(analyzer.text, timeSinceLastOutput)]
        /\ UNCHANGED <<managerVars, persistVars, monitorVars>>

AnalyzerNext ==
    \/ AnalyzeOutput
    \/ IsStillActive

AnalyzerSpec == AnalyzerInit /\ [][AnalyzerNext]_vars

\* ------------------------------------------------------- Persistence Gateway
\* The StateManager and the effect of the Layout that restores the saved
\* projects, applied to application states of up to MaxSavedProjects projects
\* of up to MaxSavedSessions sessions and to state files of every shape.
MaxSavedProjects == 2
MaxSavedSessions == 1
MaxCalls == 3

\* a Date, the ISO-8601 string of a date, the Date of an unreadable string
Date(ms) == [kind |-> "Date", ms |-> ms]
ISOString(ms) == [kind |-> "iso", ms |-> ms]
InvalidDate == [kind |-> "Date", ms |-> -1]

\* Date.prototype.toISOString
toISOString(date) == ISOString(date.ms)

\* new Date(value)
NewDate(value) ==
    IF value.kind = "Date" THEN value
    ELSE IF value.kind = "iso" THEN Date(value.ms)
    ELSE InvalidDate

\* a pseudo-terminal handle, and what is left of one in a JSON document
IPty(pid) == [kind |-> "IPty", pid |-> pid]
PlainObject(pid) == [kind |-> "object", pid |-> pid]

\* what JSON.stringify writes for a value and JSON.parse reads back: a Date
\* becomes its ISO string (Date.prototype.toJSON), a handle loses its methods,
\* a property that is undefined is left out and reads as undefined
JSONValue(value) ==
    CASE value.kind = "Date" -> toISOString(value)
      [] value.kind = "IPty" -> PlainObject(value.pid)
      [] OTHER -> value

JSONSession(session) ==
    [session EXCEPT !.claudeProcess = JSONValue(@),
                    !.createdAt = JSONValue(@),
                    !.updatedAt = JSONValue(@)]

JSONProject(project) ==
    [project EXCEPT !.sessions = Array([j \in DOMAIN project.sessions.items |->
                                           JSONSession(project.sessions.items[j])]),
                    !.createdAt = JSONValue(@),
                    !.updatedAt = JSONValue(@)]

JSONCommand(command) == [command EXCEPT !.timestamp = JSONValue(@)]

\* JSON.stringify(serializedState, null, 2): the text of the document
JSONstringify(state) ==
    [kind |-> "json",
     value |-> Object(Array([i \in DOMAIN state.projects.items |-> JSONProject(state.projects.items[i])]),
                      Array([i \in DOMAIN state.commandHistory.items |->
                                JSONCommand(state.commandHistory.items[i])]))]

\* JSON.parse(data): a SyntaxError for a text that is no JSON document
JSONparse(data) ==
    IF data.kind = "json" THEN [ok |-> TRUE, value |-> data.value]
    ELSE [ok |-> FALSE, value |-> Undefined]

\* the state file: missing, or holding a text
Missing == [kind |-> "missing"]
File(data) == [kind |-> "file", data |-> data]

\* StateManager.saveState(state); written: fs.writeFile succeeds
saveState(file, state, written) ==
    LET serializedState ==
            Object(Array([i \in DOMAIN state.projects.items |->
                             [state.projects.items[i] EXCEPT !.createdAt = toISOString(@),
                                                             !.updatedAt = toISOString(@)]]),
                   Array([i \in DOMAIN state.commandHistory.items |->
                             [state.commandHistory.items[i] EXCEPT !.timestamp = toISOString(@)]]))
    IN IF written
       THEN [file |-> File(JSONstringify(serializedState)), result |-> [kind |-> "result", success |-> TRUE]]
       ELSE [file |-> file, result |-> [kind |-> "result", success |-> FALSE]]

\* a loadState whose catch covers the reading and the parsing only
loadState_CatchesParseOnly(file) ==
    IF file.kind = "missing" THEN Null
    ELSE LET parsed == JSONparse(file.data)
         IN IF ~parsed.ok THEN Null
            ELSE LET parsedState == parsed.value
                 IN IF parsedState.kind # "object" THEN [kind |-> "throw"]
                    ELSE IF parsedState.projects.kind # "array" THEN [kind |-> "throw"]
                    ELSE IF parsedState.commandHistory.kind # "array" THEN [kind |-> "throw"]
                    ELSE Object(Array([i \in DOMAIN parsedState.projects.items |->
                                          [parsedState.projects.items[i] EXCEPT !.createdAt = NewDate(@),
                                                                                !.updatedAt = NewDate(@)]]),
                                Array([i \in DOMAIN parsedState.commandHistory.items |->
                                          [parsedState.commandHistory.items[i] EXCEPT !.timestamp = NewDate(@)]]))

\* StateManager.loadState(): every error of the reading, the parsing and the
\* two maps is caught and answered by null; the file is left as it is
loadState(file) ==
    IF file.kind = "missing" THEN Null
    ELSE LET parsed == JSONparse(file.data)
         IN IF ~parsed.ok THEN Null
            ELSE LET parsedState == parsed.value
                 IN IF parsedState.kind # "object" THEN Null
                    ELSE IF parsedState.projects.kind # "array" THEN Null
                    ELSE IF parsedState.commandHistory.kind # "array" THEN Null
                    ELSE Object(Array([i \in DOMAIN parsedState.projects.items |->
                                          [parsedState.projects.items[i] EXCEPT !.createdAt = NewDate(@),
                                                                                !.updatedAt = NewDate(@)]]),
                                Array([i \in DOMAIN parsedState.commandHistory.items |->
                                          [parsedState.commandHistory.items[i] EXCEPT !.timestamp = NewDate(@)]]))

\* StateManager.clearState(): fs.unlink, an error of which is ignored
clearState(file) == Missing

\* a value that counts as true in a condition
Truthy(value) == value.kind \notin {"undefined", "null"}

\* a restored session that keeps the status it was saved with
restoreSession_KeepsStatus(session) ==
    [session EXCEPT !.output = IF Truthy(@) THEN @ ELSE Array(<<>>),
                    !.createdAt = NewDate(@),
                    !.updatedAt = NewDate(@)]

\* the session the restoring effect of the Layout makes of a saved one
restoreSession(session) ==
    [session EXCEPT !.status = "idle",
                    !.output = IF Truthy(@) THEN @ ELSE Array(<<>>),
                    !.createdAt = NewDate(@),
                    !.updatedAt = NewDate(@)]

\* the project the restoring effect hands to addProject
restoreProject(project) ==
    [project EXCEPT !.sessions = IF project.sessions.kind = "array"
                                 THEN Array([j \in DOMAIN project.sessions.items |->
                                                restoreSession(project.sessions.items[j])])
                                 ELSE Array(<<>>),
                    !.createdAt = NewDate(@),
                    !.updatedAt = NewDate(@)]

\* the loadState effect of the Layout on the store's projects: addProject
\* appends each restored project
restoreState(storeProjects, savedState) ==
    IF savedState.kind = "object" /\ Truthy(savedState.projects)
    THEN storeProjects \o [i \in DOMAIN savedState.projects.items |->
                              restoreProject(savedState.projects.items[i])]
    ELSE storeProjects

\* the sessions a project of the registry can hold when it is saved
SessionShapes ==
    {[status |-> "active", claudeProcess |-> IPty(1)],
     [status |-> "idle", claudeProcess |-> Undefined],
     [status |-> "idle", claudeProcess |-> IPty(1)],
     [status |-> "error", claudeProcess |-> Undefined]}

Transcripts == {<<>>, <<1, 2>>}

SavedSession(pid, k, shape, transcript) ==
    [id |-> 10 * pid + k, projectId |-> pid, name |-> IF k % 2 = 1 THEN "a" ELSE "A b",
     status |-> shape.status, claudeProcess |-> shape.claudeProcess,
     output |-> Array(transcript), createdAt |-> Date(10 * pid + k), updatedAt |-> Date(10 * pid + k + 1)]

SavedProject(pid, sessionList) ==
    [id |-> pid, name |-> IF pid % 2 = 1 THEN "a" ELSE "A b", path |-> IF pid % 2 = 1 THEN "/a" ELSE "/b",
     sessions |-> Array(sessionList), createdAt |-> Date(pid), updatedAt |-> Date(pid + 1)]

SessionChoices == UNION {[1..n -> SessionShapes \X Transcripts] : n \in 0..MaxSavedSessions}

\* the application states that are saved: what getAllProjects returns, and
\* the history of one command
AppStates ==
    {Object(Array([pid \in DOMAIN choice |->
                      SavedProject(pid, [k \in DOMAIN choice[pid] |->
                                            SavedSession(pid, k, choice[pid][k][1], choice[pid][k][2])])]),
            Array(<<[id |-> 1, projectId |-> 1, command |-> "a", timestamp |-> Date(5)]>>)) :
        choice \in UNION {[1..n -> SessionChoices] : n \in 0..MaxSavedProjects}}

\* the state files that are found at start: none, an empty one, one cut off
\* in the middle, and documents that do not hold a list of projects
FoundFiles ==
    {Missing,
     File([kind |-> "empty"]),
     File([kind |-> "malformed"]),
     File([kind |-> "json", value |-> Null]),
     File([kind |-> "json", value |-> Object(Undefined, Array(<<>>))]),
     File([kind |-> "json", value |-> Object([kind |-> "string", text |-> "not-an-array"], Array(<<>>))]),
     File([kind |-> "json", value |-> Object(Array(<<>>), Undefined)])}

PersistInit ==
    /\ ManagerInit
    /\ analyzer = NoAnalysis
    /\ stateFile \in FoundFiles
    /\ appState \in AppStates
    /\ loaded = Undefined
    /\ store = [mounted |-> FALSE, projects |-> <<>>]
    /\ saved = Undefined
    /\ calls = <<>>
    /\ NoTimePassed

\* the 'state:save' handler, the save timer and the save at quit
SaveState ==
    /\ Len(calls) < MaxCalls
    /\ \E written \in BOOLEAN :
          /\ stateFile' = saveState(stateFile, appState, written).file
          /\ saved' = saveState(stateFile, appState, written).result
    /\ calls' = Append(calls, "saveState")
    /\ UNCHANGED <<managerVars, analyzer, monitorVars, appState, loaded, store>>

\* the 'state:load' handler
LoadState ==
    /\ Len(calls) < MaxCalls
    /\ loaded' = loadState(stateFile)
    /\ calls' = Append(calls, "loadState")
    /\ UNCHANGED <<managerVars, analyzer, monitorVars, stateFile, appState, store, saved>>

\* a call of clearState
ClearState ==
    /\ Len(calls) < MaxCalls
    /\ stateFile' = clearState(stateFile)
    /\ calls' = Append(calls, "clearState")
    /\ UNCHANGED <<managerVars, analyzer, monitorVars, appState, loaded, store, saved>>

\* the loadState effect of the Layout, which runs once when it is mounted:
\* it loads the state and adds the restored projects to the store
RestoreState ==
    /\ Len(calls) < MaxCalls
    /\ ~store.mounted
    /\ loaded' = loadState(stateFile)
    /\ store' = [mounted |-> TRUE, projects |-> restoreState(store.projects, loadState(stateFile))]
    /\ calls' = Append(calls, "restore")
    /\ UNCHANGED <<managerVars, analyzer, monitorVars, stateFile, appState, saved>>

PersistNext ==
    \/ SaveState
    \/ LoadState
    \/ ClearState
    \/ RestoreState

PersistSpec == PersistInit /\ [][PersistNext]_vars

TypeOK ==
    /\ projects \subseteq DOMAIN proj
    /\ sessions \subseteq DOMAIN sess
    /\ Len(procs) <= MaxProcs
\* ----------------------------------------------------------------- claims

\* the handle of a session object, and whether it is attached to a live child
Handle(sid) == sess[sid].claudeProcess
Attached(sid) == Handle(sid) # NoProc
LiveHandle(sid) == Attached(sid) /\ Alive(procs[Handle(sid)])

\* the position of effect e in a list of effects, 0 when it is not there
Pos(list, e) == IF e \in Range(list) THEN CHOOSE i \in 1..Len(list) : list[i] = e ELSE 0

\* C1: whatever the interleaving of start-session calls on a session, no
\* second child is attached while a live one is attached: a step never
\* replaces the handle of a live child by the handle of another child.
C1_OneLiveHandle ==
    [][\A sid \in DOMAIN sess :
          LiveHandle(sid) => sess'[sid].claudeProcess \in {NoProc, Handle(sid)}]_vars

\* C2: start-session on a session with a handle attached throws "already
\* running" and changes nothing: status, handle, output log, progress state and
\* every other field are as before, nothing is spawned, nothing is emitted.
C2_StartOnAttachedRejected ==
    \A sid \in sessions, pathExists \in BOOLEAN :
        Attached(sid) =>
            LET R == startBegin(Cur, sid, pathExists)
            IN /\ Threw(R, "Claude already running")
               /\ R.fx = <<>>
               /\ [R EXCEPT !.result = <<>>] = Cur

\* C2 witness: a session of the index with a live child attached, on which a
\* start-session is rejected
C2_Witness ==
    \E sid \in sessions :
        /\ LiveHandle(sid)
        /\ sess[sid].status = "active"
        /\ Threw(startBegin(Cur, sid, TRUE), "Claude already running")

\* a step is the second half of a start-session on sid that ends without an error
StartCompletes(sid) ==
    \E outcome \in {"spawned", "fallback"} :
        /\ pendingStarts[sid] > 0
        /\ Commit(startResume(Cur, sid, outcome))

\* C3: every start-session on a session without a handle that does not fail
\* sets the status to active and emits a status event "active"; the event is
\* emitted in the step that registers the output handler, so it precedes every
\* output event of the run.
C3_StartEmitsActive ==
    [][\A sid \in DOMAIN sess :
          (~Attached(sid) /\ StartCompletes(sid)) =>
              /\ sess'[sid].status = "active"
              /\ Fx("status", sid, "active") \in Range(fx')]_vars

\* C4: after every start-session on a session without a handle that does not
\* fail, the attached child has exactly one output-data handler and exactly one
\* exit handler, and the progress state is phase=thinking, isActive=true.
C4_StartRegistersHandlers ==
    [][\A sid \in DOMAIN sess :
          (~Attached(sid) /\ StartCompletes(sid)) =>
              LET p == sess'[sid].claudeProcess
              IN /\ p # NoProc
                 /\ procs'[p].dataHandlers = 1
                 /\ procs'[p].exitHandlers = 1
                 /\ sess'[sid].progressState.phase = "thinking"
                 /\ sess'[sid].progressState.isActive]_vars

\* C5: a session has a handle attached only while its status is active.
C5_HandleImpliesActive ==
    \A sid \in DOMAIN sess : Attached(sid) => sess[sid].status = "active"
\* the machine record of the next state, before any handler has run on it
After == [Cur' EXCEPT !.fx = <<>>]

\* C6: stop-session on a session with a handle writes the end-of-transmission
\* byte to the attached child and returns with the handle cleared, whether or
\* not the child has exited; send-session-input right after it fails as "not
\* running".
C6_StopClearsHandle ==
    [][\A sid \in sessions :
          (Attached(sid) /\ Commit(stopClaudeCode(Cur, sid))) =>
              /\ FxData("write", Handle(sid), <<EOT>>) \in Range(fx')
              /\ sess'[sid].claudeProcess = NoProc
              /\ \A command \in Commands :
                     Threw(sendCommand(After, sid, command), "Claude not running")]_vars

\* C6 witness: stop-session has just run on a session whose child is still
\* alive: the byte was written, the handle is cleared, the child has not exited
C6_Witness ==
    \E t \in killTimers :
        /\ t.session \in sessions
        /\ fx = <<FxData("write", t.proc, <<EOT>>), Fx("setTimeout", t.proc, "kill")>>
        /\ ~Attached(t.session)
        /\ procs[t.proc].state = "running"

\* C7: when the grace timer of a stop-session fires and the child that stop
\* signalled has not exited, that child is killed.
C7_GraceTimerKills ==
    [][\A t \in killTimers :
          (t \notin killTimers' /\ Alive(procs[t.proc])) => procs'[t.proc].state = "killed"]_vars

\* C8: no live child outlasts the removal of its session.  A child that
\* ignores the end-of-transmission byte terminates only when it is killed, and
\* the grace timer of the removal is the last thing that can kill it: once
\* that timer has fired for a removed session, the child the removal
\* signalled has exited or has been killed.
C8_NoLeakedProcess ==
    [][\A t \in killTimers :
          (t.session \notin sessions /\ t \notin killTimers') =>
              procs'[t.proc].state # "running"]_vars

\* C9: remove-session on a session with a live handle writes the
\* end-of-transmission byte to the child before the session is deleted from
\* the project's list and from the index and before session-removed is emitted.
C9_RemoveStopsFirst ==
    [][\A sid \in sessions :
          (LiveHandle(sid) /\ Commit(removeSession(Cur, sid))) =>
              LET signalled == Pos(fx', FxData("write", Handle(sid), <<EOT>>))
              IN /\ signalled > 0
                 /\ signalled < Pos(fx', Fx("list:delete", sid, ""))
                 /\ signalled < Pos(fx', Fx("index:delete", sid, ""))
                 /\ signalled < Pos(fx', Fx("session:removed", sid, ""))]_vars

\* C9 witness: remove-session has just run on a session with a live child:
\* the byte was written to the child, the session is gone from the index
C9_Witness ==
    \E sid \in DOMAIN sess, p \in DOMAIN procs :
        /\ sid \notin sessions
        /\ procs[p].session = sid
        /\ procs[p].state = "running"
        /\ FxData("write", p, <<EOT>>) \in Range(fx)
        /\ Fx("session:removed", sid, "") \in Range(fx)

\* a step is the exit of child p with exit code exitCode, with the exit handler run
ExitHandled(p, exitCode) ==
    /\ Alive(procs[p])
    /\ procs[p].exitHandlers > 0
    /\ Commit(onExit([Cur EXCEPT !.procs[p].state = "exited"], procs[p].session, exitCode))

\* C10: when a child exits, the exit handler sets the status to idle for exit
\* code 0 and to error otherwise, clears the handle, sets the progress state
\* to inactive with phase idle, and emits a status event with the new status.
C10_ExitHandler ==
    [][\A p \in DOMAIN procs, exitCode \in {0, 1} :
          ExitHandled(p, exitCode) =>
              LET sid == procs[p].session
                  status == IF exitCode = 0 THEN "idle" ELSE "error"
              IN /\ sess'[sid].status = status
                 /\ sess'[sid].claudeProcess = NoProc
                 /\ ~sess'[sid].progressState.isActive
                 /\ sess'[sid].progressState.phase = "idle"
                 /\ Fx("status", sid, status) \in Range(fx')]_vars

\* C10 witness: a child attached to an active session has just exited with a
\* non-zero code: the status event carries "error"
C10_Witness ==
    \E p \in DOMAIN procs :
        /\ procs[p].state = "exited"
        /\ sess[procs[p].session].status = "error"
        /\ ~Attached(procs[p].session)
        /\ fx = <<Fx("progress", procs[p].session, "idle"), Fx("status", procs[p].session, "error")>>

\* C11: send-session-input on a session of the index with no handle attached
\* (never started, stopped or exited) throws "not running", writes nothing to
\* any child, emits nothing and leaves every field as it was.
C11_SendWithoutHandleRejected ==
    \A sid \in sessions, command \in Commands :
        ~Attached(sid) =>
            LET R == sendCommand(Cur, sid, command)
            IN /\ Threw(R, "Claude not running")
               /\ R.fx = <<>>
               /\ [R EXCEPT !.result = <<>>] = Cur

\* C11 witness: a session whose child has exited with an error and a session
\* that was never started, both without a handle: input to either is rejected
C11_Witness ==
    \E sid \in sessions, other \in sessions, p \in DOMAIN procs :
        /\ procs[p].session = sid
        /\ procs[p].state = "exited"
        /\ sess[sid].status = "error"
        /\ ~Attached(sid)
        /\ sess[other].progressState = NoProgress
        /\ ~Attached(other)
        /\ Threw(sendCommand(Cur, sid, <<CR>>), "Claude not running")
        /\ Threw(sendCommand(Cur, other, <<CR>>), "Claude not running")

\* the last byte of a byte string is the carriage return
EndsInCR(command) == command # <<>> /\ command[Len(command)] = CR

\* C12: send-session-input with bytes that end in a carriage return resets the
\* progress state to phase thinking, isActive true, whatever the phase before
\* and whatever bytes precede the carriage return.
C12_CarriageReturnResetsProgress ==
    [][\A sid \in sessions, command \in Commands :
          (Attached(sid) /\ EndsInCR(command) /\ Commit(sendCommand(Cur, sid, command))) =>
              /\ sess'[sid].progressState.phase = "thinking"
              /\ sess'[sid].progressState.isActive]_vars

\* the write effects among a list of effects
RECURSIVE Writes(_)
Writes(list) ==
    IF list = <<>> THEN <<>>
    ELSE IF Head(list).k = "write" THEN <<Head(list)>> \o Writes(Tail(list))
    ELSE Writes(Tail(list))

\* a step is a send-session-input on a session with a handle attached
Sends(sid, command) == Attached(sid) /\ Commit(sendCommand(Cur, sid, command))

Clears(sid) == Commit(clearSessionOutput(Cur, sid))

\* C14: clear-session-output on a session of the index leaves its output log
\* empty and emits exactly one output-cleared event, for that session, and
\* nothing else.
C14_ClearEmptiesLog ==
    [][\A sid \in sessions :
          Clears(sid) =>
              /\ sess'[sid].output = <<>>
              /\ fx' = <<Fx("output:cleared", sid, "")>>]_vars

\* C14 witness: the log of a session that had received a chunk has just been
\* cleared (the chunk is still waiting to be emitted)
C14_Witness ==
    \E sid \in sessions :
        /\ fx = <<Fx("output:cleared", sid, "")>>
        /\ sess[sid].output = <<>>
        /\ sess[sid].pendingOutput # <<>>

\* the recent-output window of a session: the samples the progress monitor
\* and the rate computation read
Window(M, sid) == IF sid \in DOMAIN M.recentOutputs THEN M.recentOutputs[sid] ELSE <<>>

IsSuffix(a, b) == Len(a) <= Len(b) /\ a = LastN(b, Len(a))

\* the chunks of a log were received one right after the other
Contiguous(log) == \A i \in 1..(Len(log) - 1) : ChunkNo(log[i + 1]) = ChunkNo(log[i]) + 1

\* a step is the arrival of chunk data at the data callback of session sid
Receives(sid, data) ==
    \E p \in DOMAIN procs :
        /\ procs[p].session = sid
        /\ Alive(procs[p])
        /\ procs[p].dataHandlers > 0
        /\ Commit(onData([Cur EXCEPT !.nchunks = @ + 1], sid, data))

\* C16: eviction is first-in first-out and bounded.  When a chunk arrives for
\* an attached session, the log becomes a non-empty suffix of the old log with
\* the new chunk appended, the new chunk last.  In every step the log stays as
\* it is, is emptied by a clear, or changes in that way; it never holds more
\* than 1000 chunks, and its chunks are consecutive in the order of receipt.
\* So the log is always a contiguous suffix of the chunks received since the
\* last clear, the newest included.
C16_EvictionFifoBounded ==
    [][\A sid \in DOMAIN sess :
          LET old == sess[sid].output
              new == sess'[sid].output
              Appended(data) == /\ new # <<>>
                                /\ new[Len(new)] = data
                                /\ IsSuffix(new, Append(old, data))
          IN /\ Len(new) <= MaxOutputEntries
             /\ Contiguous(new)
             /\ \A data \in {nchunks + 1, 0 - (nchunks + 1)} :
                    (sid \in sessions /\ Attached(sid) /\ Receives(sid, data)) => Appended(data)
             /\ \/ new = old
                \/ Clears(sid) /\ new = <<>>
                \/ \E data \in {nchunks + 1, 0 - (nchunks + 1)} : Appended(data)]_vars

\* C16 witness: the log is at the count ceiling, its oldest chunks have been
\* evicted and the chunk received last is its newest entry
C16_Witness ==
    \E sid \in sessions :
        /\ Len(sess[sid].output) = MaxOutputEntries
        /\ ChunkNo(sess[sid].output[1]) > 1
        /\ ChunkNo(sess[sid].output[MaxOutputEntries]) = nchunks

\* C17: the length of a session's output log never decreases in a step that
\* is not a clear-session-output.
C17_LogNeverShrinks ==
    [][\A sid \in DOMAIN sess :
          Clears(sid) \/ Len(sess'[sid].output) >= Len(sess[sid].output)]_vars

\* effect e is among a list of effects, ahead of position n
Before(list, e, n) == Pos(list, e) > 0 /\ Pos(list, e) < n

\* C18: remove-project cascades.  Every session of the project's list is
\* deleted from the session index, every one of them with a live handle has
\* the end-of-transmission byte written to its child, and a session-removed
\* event is emitted for each, all before the project is deleted from the
\* registry, which is before the project-removed event.
C18_RemoveProjectCascades ==
    [][\A projectId \in projects :
          Commit(removeProject(Cur, projectId)) =>
              LET gone == Pos(fx', Fx("registry:delete", projectId, ""))
              IN /\ gone > 0
                 /\ gone < Pos(fx', Fx("project:removed", projectId, ""))
                 /\ projectId \notin projects'
                 /\ \A sid \in Range(proj[projectId].sessions) :
                        /\ sid \notin sessions'
                        /\ Before(fx', Fx("index:delete", sid, ""), gone)
                        /\ Before(fx', Fx("session:removed", sid, ""), gone)
                        /\ LiveHandle(sid) =>
                               Before(fx', FxData("write", Handle(sid), <<EOT>>), gone)]_vars

\* C18 witness: a project with two sessions, one of them with a live child,
\* has just been removed
C18_Witness ==
    \E projectId \in DOMAIN proj, p \in DOMAIN procs :
        /\ projectId \notin projects
        /\ Fx("project:removed", projectId, "") \in Range(fx)
        /\ Fx("session:removed", 1, "") \in Range(fx)
        /\ Fx("session:removed", 2, "") \in Range(fx)
        /\ procs[p].state = "running"
        /\ FxData("write", p, <<EOT>>) \in Range(fx)

\* C19: the session lists of the projects and the flat session index agree
\* wherever an event is emitted.  They agree in every state between two
\* handlers, which is where the handlers that leave the registry alone emit;
\* and no event of a handler that changes the registry (create-project,
\* create-session, remove-session, remove-project) is emitted between the
\* update of a list and the update of the index.
C19_ListsAndIndexAgree ==
    /\ Agree(Cur)
    /\ \A name \in AnyNames :
           /\ \A isDirectory \in BOOLEAN : ~createProject(Cur, name, isDirectory).halfUpdated
           /\ \A projectId \in ProjectIds : ~createSession(Cur, projectId, name).halfUpdated
    /\ \A projectId \in ProjectIds : ~removeProject(Cur, projectId).halfUpdated
    /\ \A sid \in SessionIds : ~removeSession(Cur, sid).halfUpdated

\* C19 witness: of two sessions of a project one has just been removed, the
\* other is still in the list and in the index
C19_Witness ==
    \E sid \in DOMAIN sess, other \in sessions :
        /\ sid \notin sessions
        /\ fx # <<>>
        /\ fx[Len(fx)] = Fx("session:removed", sid, "")
        /\ proj[sess[other].projectId].sessions = <<other>>
        /\ Agree(Cur)

\* a session as create-session makes it: idle, empty log, no handle, owned by
\* project projectId, in the index and once in the list of the project
NewSession(M, sid, projectId, name) ==
    /\ sid \in M.sessions
    /\ M.sess[sid].status = "idle"
    /\ M.sess[sid].output = <<>>
    /\ M.sess[sid].claudeProcess = NoProc
    /\ M.sess[sid].projectId = projectId
    /\ M.sess[sid].name = name
    /\ projectId \in M.projects
    /\ Cardinality({i \in DOMAIN M.proj[projectId].sessions : M.proj[projectId].sessions[i] = sid}) = 1

\* C20: for every name and every path that is an existing directory,
\* create-project succeeds, and create-session on the project it returns (and
\* on any project of the registry) returns a session with status idle, an
\* empty output log and no handle, registered under that project.
C20_CreateYieldsIdleSession ==
    \A name \in AnyNames, sessionName \in AnyNames :
        /\ LET P == createProject(Cur, name, TRUE)
               projectId == FreshProject(Cur)
               S == createSession(P, projectId, sessionName)
           IN /\ Returned(P)
              /\ P.proj[projectId].name = name
              /\ Returned(S)
              /\ NewSession(S, FreshSession(P), projectId, sessionName)
              /\ S.proj[projectId].sessions = <<FreshSession(P)>>
        /\ \A projectId \in projects :
               LET S == createSession(Cur, projectId, sessionName)
               IN Returned(S) /\ NewSession(S, FreshSession(Cur), projectId, sessionName)

\* C20 witness: create-session has just returned the first session of a
\* project that create-project made
C20_Witness ==
    \E sid \in sessions :
        /\ fx = <<Fx("session:created", sid, "")>>
        /\ NewSession(Cur, sid, sess[sid].projectId, "a")
        /\ proj[sess[sid].projectId].sessions = <<sid>>

\* a handler ended by reporting an error to its caller, and changed nothing
Rejected(R) ==
    /\ R.result # <<>>
    /\ R.result[1] = "throw"
    /\ R.fx = <<>>
    /\ [R EXCEPT !.result = <<>>] = Cur

\* C21: an operation on an unknown project or session id reports an error to
\* its caller and changes nothing: create-session with an unknown project id,
\* start-session, stop-session, send-session-input and clear-session-output
\* with an unknown session id.
C21_UnknownIdRejected ==
    /\ \A projectId \in ProjectIds \ projects, name \in AnyNames :
           Rejected(createSession(Cur, projectId, name))
    /\ \A sid \in SessionIds \ sessions :
           /\ \A pathExists \in BOOLEAN : Rejected(startBegin(Cur, sid, pathExists))
           /\ \A command \in Commands : Rejected(sendCommand(Cur, sid, command))
           /\ Rejected(stopClaudeCode(Cur, sid))
           /\ Rejected(clearSessionOutput(Cur, sid))

\* a step is a start-session on session sid that fails: at the check of the
\* project directory, or when both spawns throw
StartFails(sid) ==
    \/ /\ sess[sid].projectId \in projects
       /\ ~Attached(sid)
       /\ Commit(startBegin(Cur, sid, FALSE))
    \/ /\ pendingStarts[sid] > 0
       /\ Commit(startResume(Cur, sid, "failed"))

\* C22: a start-session that fails (the project directory is gone, or both
\* the first spawn and the spawn of the fallback shell fail) leaves the session
\* with status error, emits a status event "error" and appends a line to the
\* output log of the session.
C22_FailedStartReported ==
    [][\A sid \in sessions :
          StartFails(sid) =>
              /\ sess'[sid].status = "error"
              /\ Fx("status", sid, "error") \in Range(fx')
              /\ Len(sess'[sid].output) = Len(sess[sid].output) + 1]_vars

\* C23: when start-session reaches the registration of the handlers with the
\* active-handler flag of the session set, no handler is added to the child
\* and the call does not end as a success: it reports an error to its caller.
C23_DuplicateHandlerRejected ==
    \A sid \in sessions :
        (pendingStarts[sid] > 0 /\ sid \in activeDataHandlers) =>
            LET R == startResume(Cur, sid, "spawned")
                p == R.sess[sid].claudeProcess
            IN /\ R.procs[p].dataHandlers = 0
               /\ R.result # <<>>
               /\ R.result[1] = "throw"

\* C24: stop-session on a session of the index with no handle attached
\* returns without an error and does nothing: no write, no kill timer, no
\* event, and status, pending output, coalescing timer and handler flag stay
\* as they are.
C24_StopWithoutHandleNoOp ==
    \A sid \in sessions :
        ~Attached(sid) =>
            LET R == stopClaudeCode(Cur, sid)
            IN /\ Returned(R)
               /\ R.fx = <<>>
               /\ R.killTimers = killTimers
               /\ [R EXCEPT !.result = <<>>] = Cur

\* C24 witness: a session whose child has exited with output still pending,
\* the coalescing timer armed and the handler flag set; stop-session returns
C24_Witness ==
    \E sid \in sessions :
        /\ ~Attached(sid)
        /\ sess[sid].emitTimer
        /\ sess[sid].pendingOutput # <<>>
        /\ sid \in activeDataHandlers
        /\ Returned(stopClaudeCode(Cur, sid))

\* the output events among a list of effects
RECURSIVE Outputs(_)
Outputs(list) ==
    IF list = <<>> THEN <<>>
    ELSE IF Head(list).k = "output" THEN <<Head(list)>> \o Outputs(Tail(list))
    ELSE Outputs(Tail(list))

\* C30: output events are coalesced per session.  At most one coalescing
\* timer is armed for a session at any time; an output event is emitted only
\* by a step in which the timer of its session fires; a firing emits at most
\* one output event, and that event carries all the chunks that arrived since
\* the timer before it fired: a burst of N chunks gives one event, not N.
C30_OutputCoalesced ==
    [][/\ \A sid \in DOMAIN sess : sess'[sid].armed <= 1
       /\ Len(Outputs(fx')) <= 1
       /\ \A i \in DOMAIN Outputs(fx') :
              LET e == Outputs(fx')[i]
              IN /\ e.id \in DOMAIN sess
                 /\ sess[e.id].armed = 1
                 /\ sess'[e.id].armed = 0
                 /\ e.data = sess[e.id].pendingOutput
                 /\ sess'[e.id].pendingOutput = <<>>]_vars

\* C30 witness: a burst of two chunks has just been emitted as one output event
C30_Witness ==
    \E sid \in sessions :
        /\ Len(fx) = 1
        /\ fx[1].k = "output"
        /\ fx[1].id = sid
        /\ Len(fx[1].data) >= 2
        /\ sess[sid].armed = 0

\* ------------------------------------------------------------------- C25
\* C25: load() never raises: on a nonexistent file, an empty file, malformed
\* JSON, or a document whose projects field is absent or not a sequence, it
\* returns "no state" (null).
LastCall == IF calls = <<>> THEN "none" ELSE calls[Len(calls)]

NoProjectList(file) ==
    \/ file.kind = "missing"
    \/ /\ file.kind = "file"
       /\ \/ file.data.kind \in {"empty", "malformed"}
          \/ /\ file.data.kind = "json"
             /\ file.data.value.kind = "object"
             /\ file.data.value.projects.kind # "array"

C25_LoadNeverRaises ==
    LastCall = "loadState" =>
        /\ loaded.kind # "throw"
        /\ NoProjectList(stateFile) => loaded = Null

\* loadState has answered null to a document whose projects are a string
C25_Witness ==
    /\ LastCall = "loadState"
    /\ stateFile.kind = "file"
    /\ stateFile.data.kind = "json"
    /\ stateFile.data.value.kind = "object"
    /\ stateFile.data.value.projects.kind = "string"
    /\ loaded = Null

\* ------------------------------------------------------------------- C26
\* C26: when load() finds a state file that does not parse as valid JSON, it
\* deletes that file in addition to returning "no state", so that a later
\* load() sees a missing file rather than the same corrupt file: once load()
\* has returned, the state file is not a malformed one.
C26_CorruptFileDeleted ==
    LastCall = "loadState" =>
        ~(stateFile.kind = "file" /\ stateFile.data.kind = "malformed")

\* ------------------------------------------------------------------- C27
\* C27: save(projects) followed by load() and restore yields the same project
\* and session identities, names, paths and output transcripts, and every
\* restored session has status idle and no live handle, whatever its status
\* was when it was saved.
SavedThenRestored ==
    /\ Len(calls) >= 2
    /\ calls[Len(calls)] = "restore"
    /\ calls[Len(calls) - 1] = "saveState"
    /\ saved.success

SameSession(restored, original) ==
    /\ restored.id = original.id
    /\ restored.projectId = original.projectId
    /\ restored.name = original.name
    /\ restored.output = original.output
    /\ restored.status = "idle"
    /\ restored.claudeProcess.kind # "IPty"

SameProject(restored, original) ==
    /\ restored.id = original.id
    /\ restored.name = original.name
    /\ restored.path = original.path
    /\ Len(restored.sessions.items) = Len(original.sessions.items)
    /\ \A j \in DOMAIN original.sessions.items :
          SameSession(restored.sessions.items[j], original.sessions.items[j])

TerminalText(text) == Matches("waiting", text) \/ Matches("complete", text)

StillDeciding(text) == Matches("starting", text) \/ Matches("thinking", text)

C28_StillActiveTable ==
    analyzer.called = "isStillActive" =>
        /\ TerminalText(analyzer.text) => ~analyzer.stillActive
        /\ (~TerminalText(analyzer.text) /\ analyzer.timeSinceLastOutput > 30000) =>
               (analyzer.stillActive <=> StillDeciding(analyzer.text))
        /\ (~TerminalText(analyzer.text) /\ analyzer.timeSinceLastOutput <= 30000) =>
               analyzer.stillActive

\* a text that is neither terminal nor deciding, silent for exactly 30000 ms,
\* was judged still active
C28_Witness ==
    /\ analyzer.called = "isStillActive"
    /\ analyzer.timeSinceLastOutput = 30000
    /\ ~TerminalText(analyzer.text)
    /\ ~StillDeciding(analyzer.text)
    /\ analyzer.text # <<>>
    /\ analyzer.stillActive

\* ------------------------------------------------------------------- C29
\* C29: the classifier applies its pattern classes in a fixed priority order
\* and the first matching class wins: waiting, completion, error, starting,
\* creating, executing, analyzing, thinking, then the default (any non-empty
\* text gives phase working); empty or whitespace-only text gives phase idle
\* with an empty status. A text matching several classes gets the phase of
\* the highest-priority one.
Priority ==
    <<"waiting", "complete", "error", "starting", "creating", "executing",
      "analyzing", "thinking">>

PhaseOf(class) ==
    CASE class = "waiting" -> "waiting"
      [] class = "complete" -> "complete"
      [] class \in {"error", "creating", "executing"} -> "working"
      [] class \in {"starting", "analyzing", "thinking"} -> "thinking"

Blank(text) == \A i \in DOMAIN text : text[i] = "sp"

\* the classes the text matches once the white space around it is cut off
Hits(text) == {i \in DOMAIN Priority : Matches(Priority[i], Trim(text))}

C29_FirstMatchWins ==
    analyzer.called = "analyzeOutput" =>
        IF Blank(analyzer.text)
        THEN analyzer.phase = "idle" /\ analyzer.status = ""
        ELSE IF Hits(analyzer.text) = {}
        THEN analyzer.phase = "working"
        ELSE \E i \in Hits(analyzer.text) :
                /\ \A j \in Hits(analyzer.text) : i <= j
                /\ analyzer.phase = PhaseOf(Priority[i])

\* a text that matches the completion and the waiting class was classified
C29_Witness ==
    /\ analyzer.called = "analyzeOutput"
    /\ Matches("complete", Trim(analyzer.text))
    /\ Matches("waiting", Trim(analyzer.text))
    /\ Cardinality(Hits(analyzer.text)) >= 3
    /\ analyzer.phase = "waiting"


\* ------------------------------------------------------------------- C31
\* C31: every non-empty output chunk received by a running session refreshes
\* its progress state: lastOutputTime is set to the arrival time of that chunk
\* and phase and status are set to the classifier's result for the chunk's
\* text.
ChunkAccepted(sid) == lastChunk'[sid].no # lastChunk[sid].no

C31_ChunkRefreshesProgress ==
    [][\A sid \in SessionIds :
          ChunkAccepted(sid) =>
              /\ sess'[sid].lastOutputTime = lastChunk'[sid].at
              /\ sess'[sid].progressState.phase = analyzeOutput(lastChunk'[sid].text).phase
              /\ sess'[sid].progressState.status = analyzeOutput(lastChunk'[sid].text).status]_vars

\* ------------------------------------------------------------------- C32
\* C32: the silence-driven transition to phase complete, isActive false
\* happens only when isStillActive(text of the last output chunk, time since
\* the last output chunk) is false: a session that received an output chunk
\* within the last 30 s whose text is neither a waiting nor a completion
\* pattern is never marked complete by the progress monitor.
MarkedComplete(sid) ==
    /\ sid \in sessions
    /\ sess[sid].progressState.isActive
    /\ ~sess'[sid].progressState.isActive
    /\ sess'[sid].progressState.phase = "complete"
    /\ sess'[sid].progressState.status = "Ready"

C32_MonitorFollowsLastChunk ==
    [][\A sid \in SessionIds :
          (MarkedComplete(sid) /\ lastChunk[sid].no > 0) =>
              ~isStillActive(lastChunk[sid].text, clock - lastChunk[sid].at)]_vars


\* ------------------------------------------------------------------- C33
\* C33: a single malformed chunk never terminates the session: for any chunk
\* delivered to the output handler (a value that is not a string included) the
\* handler does not throw to its caller, and a rejected chunk leaves the
\* session's handle, status, output log and pending-output buffer unchanged,
\* so that later valid chunks are still processed.
Throws(M) == M.result # <<>> /\ M.result[1] = "throw"

C33_MalformedChunkHarmless ==
    \A sid \in DOMAIN sess :
        LET rejected == onData(Cur, sid, NotAString)
            valid == nchunks + 1
        IN /\ ~Throws(rejected)
           /\ ~Throws(onData(Cur, sid, valid))
           /\ rejected.sess[sid].claudeProcess = sess[sid].claudeProcess
           /\ rejected.sess[sid].status = sess[sid].status
           /\ rejected.sess[sid].output = sess[sid].output
           /\ rejected.sess[sid].pendingOutput = sess[sid].pendingOutput
           /\ onData(rejected, sid, valid).sess[sid] = onData(Cur, sid, valid).sess[sid]

\* a running session with a chunk in its log and in its pending buffer, to
\* which a value that is not a string can be delivered
C33_Witness ==
    \E sid \in sessions :
        /\ sess[sid].claudeProcess # NoProc
        /\ Alive(procs[sess[sid].claudeProcess])
        /\ sess[sid].output # <<>>
        /\ sess[sid].pendingOutput # <<>>


\* ------------------------------------------------------------------- C34
\* C34: when appending a chunk makes the log's total character count exceed
\* the 10 MiB ceiling, the log is trimmed to its last 100 chunks (still
\* including the newest chunk), independently of the 1000-chunk count
\* ceiling; after every processed chunk the log holds at most 1000 chunks.
C34_SizeCeilingTrims ==
    [][\A sid \in sessions :
          \A data \in {nchunks + 1, 0 - (nchunks + 1)} :
              (Attached(sid) /\ Receives(sid, data)) =>
                  LET appended == Append(sess[sid].output, data)
                  IN /\ TotalSize(appended) > 10 * 1024 * 1024 =>
                            sess'[sid].output = LastN(appended, 100)
                     /\ Len(sess'[sid].output) <= 1000]_vars

\* C34 as amended: the total character count is taken after the log with the
\* new chunk has been cut to its newest 1000 chunks.
C34_SizeCeilingAfterCount ==
    [][\A sid \in sessions :
          \A data \in {nchunks + 1, 0 - (nchunks + 1)} :
              (Attached(sid) /\ Receives(sid, data)) =>
                  LET appended == Append(sess[sid].output, data)
                  IN /\ TotalSize(LastN(appended, 1000)) > 10 * 1024 * 1024 =>
                            sess'[sid].output = LastN(appended, 100)
                     /\ Len(sess'[sid].output) <= 1000]_vars

\* the log was over the size ceiling with far fewer than 1000 chunks and has
\* been trimmed to its newest 100 chunks
C34_Witness ==
    \E sid \in sessions :
        /\ Len(sess[sid].output) = 100
        /\ nchunks = PrefilledLong + 1
        /\ ChunkNo(sess[sid].output[100]) = nchunks
        /\ ChunkNo(sess[sid].output[1]) = nchunks - 99


\* ------------------------------------------------------------------- C35
\* C35: output delivery loses and duplicates nothing for a run that is not
\* stopped: for a session whose process runs and exits by itself, the
\* concatenation of the payloads of its output events equals the
\* concatenation, in arrival order, of all chunks the output handler
\* accepted, including chunks still pending when the exit handler ran.  At
\* any time the payloads emitted so far are the first of the accepted chunks,
\* and they are all of them once no coalescing timer is pending.
IsPrefix(a, b) == Len(a) <= Len(b) /\ a = SubSeq(b, 1, Len(a))

C35_NothingLostOrDuplicated ==
    \A sid \in DOMAIN sess :
        ~delivery[sid].stopped =>
            /\ IsPrefix(delivery[sid].delivered, delivery[sid].accepted)
            /\ sess[sid].armed = 0 => delivery[sid].delivered = delivery[sid].accepted

\* the only child of a session exited by itself while chunks were pending,
\* and the timer that fired after the exit has emitted them
C35_Witness ==
    \E sid \in DOMAIN sess :
        /\ ~delivery[sid].stopped
        /\ Len(procs) = 1
        /\ procs[1].state = "exited"
        /\ sess[sid].claudeProcess = NoProc
        /\ Len(fx) = 1
        /\ fx[1].k = "output"
        /\ Len(fx[1].data) >= 2
        /\ delivery[sid].delivered = delivery[sid].accepted


\* ------------------------------------------------------------------- C36
\* C36: the forced-termination timer scheduled by a stop-session never kills
\* or detaches a process that was attached by a later start-session: after
\* stop followed by start within the grace window, the firing of the old
\* timer leaves the new process alive and its handle attached.
C36_OldTimerSparesNewProcess ==
    [][\A t \in killTimers :
          LET sid == t.session
          IN (t \notin killTimers' /\ Attached(sid) /\ Handle(sid) # t.proc) =>
                 /\ sess'[sid].claudeProcess = Handle(sid)
                 /\ procs'[Handle(sid)].state = procs[Handle(sid)].state]_vars

\* ------------------------------------------------------------------- C37
\* C37: the exit of an earlier process never affects a later run: if a
\* session is stopped and started again before the old process has exited,
\* the old process's exit handler does not clear the new process's handle and
\* does not change the session's status away from active.
Exits(p) == Alive(procs[p]) /\ procs'[p].state = "exited"

C37_OldExitSparesNewRun ==
    [][\A p \in DOMAIN procs :
          LET sid == procs[p].session
          IN (Exits(p) /\ Attached(sid) /\ Handle(sid) # p /\ sess[sid].status = "active") =>
                 /\ sess'[sid].claudeProcess = Handle(sid)
                 /\ sess'[sid].status = "active"]_vars

\* ------------------------------------------------------------------- C38
\* C38: output produced by a process after it was stopped is never appended
\* to the session's log or emitted as an output event, including when the
\* session has been started again and the old process is still alive: a chunk
\* that is accepted never comes from a child that stop-session signalled.
C38_StoppedProcessIsMute ==
    [][\A sid \in DOMAIN sess :
          Len(delivery'[sid].accepted) > Len(delivery[sid].accepted) =>
              delivery'[sid].source \notin delivery[sid].stoppedProcs]_vars

\* ------------------------------------------------------------------- C39
\* C39: no session-output event for a session is emitted after that session's
\* session-removed event, in any interleaving of output arrival, process
\* exit, coalescing-timer firing and remove-session: a handler that runs
\* while the session is out of the index emits no output event for it.
C39_NoOutputAfterRemoved ==
    [][\A sid \in DOMAIN sess :
          sid \notin sessions => Payloads(fx', sid) = <<>>]_vars

\* ------------------------------------------------------------------- C40
\* C40: after a session-output-cleared event, no session-output event carries
\* text that the output handler received before the clear: every chunk of a
\* payload was produced after the last clear of the session.
C40_ClearDropsPending ==
    [][\A sid \in DOMAIN sess :
          \A i \in DOMAIN Payloads(fx', sid) :
              ChunkNo(Payloads(fx', sid)[i]) > delivery[sid].clearedUpTo]_vars

====
